---- MODULE Spec2Model ----
(***************************************************************************)
(* Model of two peripheral drivers:                                        *)
(*   - embassy-stm32/src/flash/f0.rs : the STM32F0 flash programming       *)
(*     engine (unlock, program, erase, busy poll, flag clearing);          *)
(*   - embassy-nrf/src/timerv2.rs    : the nRF TIMER0 driver with its      *)
(*     typestate handle and its four capture/compare channels.             *)
(* The registers are the state; every driver function is a pure operator   *)
(* on register values and an action that applies it.                       *)
(***************************************************************************)
EXTENDS Integers, Sequences, FiniteSets, TLC

(***************************************************************************)
(* Bounds of the model.                                                    *)
(***************************************************************************)
\* Polls of the status register that find busy set, counted up to this.
MaxPolls == 2
\* Sector start addresses handed to blocking_erase_sector: 0..MaxSector.
MaxSector == 1
\* The timer's counter, and the values written to a CC register: 0..MaxCount.
MaxCount == 2
\* The Frequency variants handed to set_frequency: 0..MaxFreq (of 0..9).
MaxFreq == 2
\* Calls of get_timer.
MaxBinds == 2
\* Half-words in a write block: WRITE_SIZE is twice this.
WriteHalfWords == 2
\* The channels the sampling specification captures on: 0..MaxSampleCh.
MaxSampleCh == 1
\* The indices cc(n) is called with: 0..MaxIndex.
MaxIndex == 5

(***************************************************************************)
(* Program constants.                                                      *)
(***************************************************************************)
\* The two unlock keys written to FLASH_KEYR, 0x4567_0123 and 0xCDEF_89AB,
\* each as its high and low half-word (a 32-bit key exceeds TLC's integers).
KEY1 == <<17767, 291>>
KEY2 == <<52719, 35243>>
\* The CC registers of a timer: cc(n) panics for n >= 4.
NumCc == 4
\* The first bit of SHORTS of the compare-to-stop shortcuts: 1 << (8 + n).
StopShortBase == 8

VARIABLES
    \* ---- flash controller registers ----
    cr,         \* FLASH_CR: [pg, per, strt, lock]
    sr,         \* FLASH_SR: [bsy, pgerr, wrprt, eop]
    ar,         \* FLASH_AR: address of the sector to erase
    keyr,       \* the keys written to FLASH_KEYR since the last lock, in order
    \* ---- the caller of the flash engine ----
    fpc,        \* where the caller stands: idle, begun, write_wait, write_ret, erase_wait
    returned,   \* the flash function that returned last, "none" while one runs
    fret,       \* the Result that function returned: Ok, Protected, Seq, Prog
    srReady,    \* the status word read by the poll that found busy clear
    polls,      \* polls of the running wait that found busy set
    \* ---- the flash array and what the controller did ----
    mem,        \* the half-word stored at each even byte address
    wreq,       \* the last blocking_write: [buf, address, fresh]
    hwPending,  \* a store of the write in flight was refused
    hwRaised,   \* the flags the controller raised for the last operation
    hwPage,     \* the page the controller was started on, NoPage if none
    \* ---- TIMER0 and its driver ----
    tim,        \* the timer's registers and what was observed at its writes
    handle,     \* the Timer<MODE> value the caller holds: [mode, bitmode]
    binds,      \* calls of get_timer so far
    ppiTask,    \* the Task handed to the interconnect last: [api, ch, reg]
    top,        \* the timer driver function that returned last
    tval,       \* the value the last read() or capture() returned
    rmw,        \* per context: the modify of SHORTS it is in, [pc, op, n, bits]
    inten,      \* TIMER0 interrupt enables: the bit positions that are set
    ccLive      \* the indices of the Cc handles that exist

flashExt == <<mem, wreq, hwPending, hwRaised, hwPage>>

flashVars == <<cr, sr, ar, keyr, fpc, returned, fret, srReady, polls, flashExt>>

chanVars == <<rmw, inten, ccLive>>

timerVars == <<tim, handle, binds, ppiTask, top, tval, chanVars>>

vars == <<cr, sr, ar, keyr, fpc, returned, fret, srReady, polls,
          mem, wreq, hwPending, hwRaised, hwPage,
          tim, handle, binds, ppiTask, top, tval, rmw, inten, ccLive>>

(***************************************************************************)
(* FLASH registers.                                                        *)
(***************************************************************************)
CrBits == [pg : BOOLEAN, per : BOOLEAN, strt : BOOLEAN, lock : BOOLEAN]
SrBits == [bsy : BOOLEAN, pgerr : BOOLEAN, wrprt : BOOLEAN, eop : BOOLEAN]

\* The value a `write` closure starts from: every field 0.
CrDefault == [pg |-> FALSE, per |-> FALSE, strt |-> FALSE, lock |-> FALSE]
SrDefault == [bsy |-> FALSE, pgerr |-> FALSE, wrprt |-> FALSE, eop |-> FALSE]

\* A store to FLASH_CR. LOCK is set by writing 1 and cleared only by the key
\* sequence, so a 0 written to it leaves it as it is.
CrStore(old, val) == [val EXCEPT !.lock = old.lock \/ val.lock]

\* A store to FLASH_SR. PGERR, WRPRT and EOP are cleared by writing 1 and kept
\* by writing 0; BSY is read-only.
SrStore(old, val) ==
    [bsy   |-> old.bsy,
     pgerr |-> old.pgerr /\ ~val.pgerr,
     wrprt |-> old.wrprt /\ ~val.wrprt,
     eop   |-> old.eop /\ ~val.eop]

(***************************************************************************)
(* The functions of flash/f0.rs, as operators on register values.          *)
(***************************************************************************)
\* lock(): cr().modify(|w| w.set_lock(true))
lock(c) == CrStore(c, [c EXCEPT !.lock = TRUE])

\* unlock(): the two keys written to KEYR; the controller drops LOCK when it
\* has seen KEY1 then KEY2.
unlock(c, keys) ==
    IF keys = <<KEY1, KEY2>> THEN [c EXCEPT !.lock = FALSE] ELSE c

\* begin_write(): cr().write(|w| w.set_pg(true))
begin_write(c) == CrStore(c, [CrDefault EXCEPT !.pg = TRUE])

end_write_keeps_pg(c) == CrStore(c, [CrDefault EXCEPT !.pg = c.pg])

\* end_write(): cr().write(|w| w.set_pg(false))
end_write(c) == CrStore(c, [CrDefault EXCEPT !.pg = FALSE])

clear_all_err_skips_wrprt(s) ==
    LET w1 == IF s.pgerr THEN [SrDefault EXCEPT !.pgerr = TRUE] ELSE SrDefault
        w2 == IF s.eop THEN [w1 EXCEPT !.eop = TRUE] ELSE w1
    IN  SrStore(s, w2)

\* clear_all_err(): sr().modify(..): the closure is given the value read and
\* sets to 1 each flag that reads 1; that value is written back.
clear_all_err(s) ==
    LET w1 == IF s.pgerr THEN [s EXCEPT !.pgerr = TRUE] ELSE s
        w2 == IF w1.wrprt THEN [w1 EXCEPT !.wrprt = TRUE] ELSE w1
        w3 == IF w2.eop THEN [w2 EXCEPT !.eop = TRUE] ELSE w2
    IN  SrStore(s, w3)

blocking_wait_ready_once(s) ==
    IF s.wrprt THEN "Protected"
    ELSE IF s.pgerr THEN "Seq"
    ELSE "Ok"

blocking_wait_ready_pgerr_first(s) ==
    IF s.bsy THEN "Spin"
    ELSE IF s.pgerr THEN "Seq"
    ELSE IF s.wrprt THEN "Protected"
    ELSE "Ok"

\* blocking_wait_ready(): one turn of the loop on the status word read;
\* "Spin" is another turn.
blocking_wait_ready(s) ==
    IF s.bsy THEN "Spin"
    ELSE IF s.wrprt THEN "Protected"
    ELSE IF s.pgerr THEN "Seq"
    ELSE "Ok"

\* WRITE_SIZE, even (begin_write asserts it), in bytes.
WriteSize == 2 * WriteHalfWords

\* Sectors are named by number; sector s starts at byte s * WriteSize and
\* holds one write block.
SectorStart(s) == s * WriteSize
HalfWordAddrs == {2 * k : k \in 0..((MaxSector + 1) * WriteHalfWords - 1)}

\* An erased half-word reads 0xFFFF.
Erased == 65535
NoPage == -1
NoFlags == [pgerr |-> FALSE, wrprt |-> FALSE, eop |-> FALSE]
NoWrite == [buf |-> <<>>, address |-> 0, fresh |-> FALSE]

\* The buffers handed to blocking_write: zero-filled, 1, 2, 3, ..., and
\* 255, 254, 253, ...
Buffers ==
    {[i \in 1..WriteSize |-> 0], [i \in 1..WriteSize |-> i],
     [i \in 1..WriteSize |-> 256 - i]}

\* The controller programs a half-word where the array reads erased and PG
\* is set; otherwise it stores nothing and has PGERR to raise.
HwProgram(m, c, a, h) ==
    IF c.pg /\ m.mem[a] = Erased
    THEN [m EXCEPT !.mem[a] = h]
    ELSE [m EXCEPT !.pgerr = TRUE]

from_be_bytes(chunk) == 256 * chunk[1] + chunk[2]

\* u16::from_le_bytes
from_le_bytes(chunk) == chunk[1] + 256 * chunk[2]

\* blocking_write, lines 34-41: for chunk in buf.chunks(2), the half-word
\* stored at address, address advanced by the chunk's length.
RECURSIVE blocking_write_chunks(_, _, _, _)
blocking_write_chunks(m, c, address, buf) ==
    IF buf = <<>>
    THEN m
    ELSE LET chunk == SubSeq(buf, 1, 2)
             m1    == HwProgram(m, c, address, from_le_bytes(chunk))
         IN  blocking_write_chunks(m1, c, address + Len(chunk),
                                   SubSeq(buf, 3, Len(buf)))

\* The bytes a read of len bytes of flash at address gives.
FlashRead(m, address, len) ==
    [i \in 1..len |->
        LET a == address + i - 1
        IN  IF a % 2 = 0 THEN m[a] % 256 ELSE m[a - 1] \div 256]

\* The page erased: every half-word of sector s reads erased.
ErasePage(m, s) ==
    [a \in HalfWordAddrs |->
        IF SectorStart(s) <= a /\ a < SectorStart(s) + WriteSize THEN Erased ELSE m[a]]

erase_begin_page_strt_first(c, a, sector) ==
    LET c1 == CrStore(c, [c EXCEPT !.per = TRUE])
        c2 == CrStore(c1, [c1 EXCEPT !.strt = TRUE])
    IN  IF c2.strt /\ c2.per THEN a ELSE NoPage

\* blocking_erase_sector, lines 47-55, seen from the controller: the page it
\* starts on is what FLASH_AR holds when STRT is set, if PER is set then.
erase_begin_page(c, a, sector) ==
    LET c1 == CrStore(c, [c EXCEPT !.per = TRUE])
        a1 == sector
        c2 == CrStore(c1, [c1 EXCEPT !.strt = TRUE])
    IN  IF c2.strt /\ c2.per THEN a1 ELSE NoPage

\* blocking_erase_sector, lines 47-55: PER set, the address written, STRT set.
erase_begin_cr(c) ==
    LET c1 == CrStore(c, [c EXCEPT !.per = TRUE])
    IN  CrStore(c1, [c1 EXCEPT !.strt = TRUE])

erase_ret_ignores_eop(waited, s) == waited

\* blocking_erase_sector, lines 57-62: the result after the poll, from the
\* poll's result and the status word read at line 59.
erase_ret(waited, s) == IF ~s.eop THEN "Prog" ELSE waited

\* blocking_erase_sector, lines 59-68: the status register after the EOP
\* acknowledgement (when EOP reads 1) and clear_all_err().
erase_end_sr(s) ==
    LET s1 == IF ~s.eop THEN s ELSE SrStore(s, [SrDefault EXCEPT !.eop = TRUE])
    IN  clear_all_err(s1)

\* blocking_erase_sector, line 66: cr().modify(|w| w.set_per(false))
erase_end_cr(c) == CrStore(c, [c EXCEPT !.per = FALSE])

(***************************************************************************)
(* TIMER0 registers.                                                       *)
(*   running, off      started / shut down                                 *)
(*   counter           the internal counter                                *)
(*   bitmode, prescaler, mode   the configuration registers               *)
(*   shorts            SHORTS, as the set of the positions of its 1 bits   *)
(*   cc                CC[0..3]                                            *)
(*   stopHeld          a STOP was triggered and no START since             *)
(*   cfgWrite          the last write to BITMODE or PRESCALER: which       *)
(*                     register, whether the timer ran when the function   *)
(*                     was called, whether it ran at the write, stopHeld   *)
(*                     at the write                                        *)
(*   sampled           the channels whose CC register holds a capture of   *)
(*                     the counter taken since the counter last went back  *)
(*                     to 0                                                *)
(***************************************************************************)
Channels == 0..(NumCc - 1)

\* The contexts that can hold a Cc handle at once: Cc borrows the timer
\* shared, so the thread and an interrupt handler can each run a function
\* of their own handle.
Contexts == {"thread", "handler"}
NoModify == [pc |-> "idle", op |-> "none", n |-> 0, bits |-> {}]

Bitmode == {"B8", "B16", "B24", "B32"}

\* The BITMODE variant set_bitmode writes for each Bitmode (lines 80-85).
BitmodeVariant(b) ==
    CASE b = "B8"  -> "_08bit"
      [] b = "B16" -> "_16bit"
      [] b = "B24" -> "_24bit"
      [] b = "B32" -> "_32bit"

NoCfgWrite ==
    [reg |-> "none", calledRunning |-> FALSE, running |-> FALSE, stopHeld |-> TRUE]

\* A task register: its name and, for tasks_capture[n], its index.
Reg(name, n) == [name |-> name, n |-> n]

NoTask == [api |-> "none", ch |-> 0, reg |-> Reg("none", 0)]

\* The counter advanced by one; a CC register equal to the new value raises
\* its COMPARE event, which clears and stops through the enabled shortcuts.
Advance(t) ==
    LET c    == t.counter + 1
        hits == {n \in Channels : t.cc[n] = c}
        clr  == \E n \in hits : n \in t.shorts
        stp  == \E n \in hits : (StopShortBase + n) \in t.shorts
    IN  [t EXCEPT !.counter  = IF clr THEN 0 ELSE c,
                  !.running  = IF stp THEN FALSE ELSE @,
                  !.stopHeld = IF stp THEN TRUE ELSE @,
                  !.sampled  = IF clr THEN {} ELSE @]

\* What the timer does when 1 is written to a task register.
HwTask(t, reg) ==
    CASE reg.name = "tasks_start" ->
            [t EXCEPT !.running = TRUE, !.off = FALSE, !.stopHeld = FALSE]
      [] reg.name = "tasks_stop" ->
            [t EXCEPT !.running = FALSE, !.stopHeld = TRUE]
      [] reg.name = "tasks_clear" ->
            [t EXCEPT !.counter = 0, !.sampled = {}]
      [] reg.name = "tasks_shutdown" ->
            [t EXCEPT !.running = FALSE, !.off = TRUE]
      [] reg.name = "tasks_count" ->
            IF t.mode = "low_power_counter" /\ t.running /\ t.counter < MaxCount
            THEN Advance(t) ELSE t
      [] reg.name = "tasks_capture" ->
            [t EXCEPT !.cc[reg.n] = t.counter, !.sampled = @ \cup {reg.n}]
      [] OTHER -> t

(***************************************************************************)
(* The functions of timerv2.rs, as operators on the registers and on the   *)
(* handle.                                                                 *)
(***************************************************************************)
\* Timer::start / stop / clear: 1 written to the task register.
start(t) == HwTask(t, Reg("tasks_start", 0))
stop(t) == HwTask(t, Reg("tasks_stop", 0))
clear(t) == HwTask(t, Reg("tasks_clear", 0))

\* Timer::task_start / task_stop / task_clear / task_count: the register the
\* returned Task points to.
task_start == Reg("tasks_start", 0)
task_stop == Reg("tasks_shutdown", 0)
task_clear == Reg("tasks_clear", 0)
task_count == Reg("tasks_count", 0)

cc_panics_above(n) == [panic |-> n > NumCc, n |-> n]

\* Timer::cc(n): the Cc handle, or the panic for n >= 4.
cc(n) == [panic |-> n >= NumCc, n |-> n]

\* Cc::read / write.
read(t, n) == t.cc[n]
write(t, n, value) == [t EXCEPT !.cc[n] = value, !.sampled = @ \ {n}]

capture_no_trigger(t, n) == t

\* Cc::capture: the capture task of the channel triggered, then read().
capture(t, n) == HwTask(t, Reg("tasks_capture", n))

\* Cc::task_capture: from_reg is given the array tasks_capture, not its
\* element n; the Task points to where the array starts, which is element 0.
task_capture(n) == Reg("tasks_capture", 0)

\* Cc::short_compare_clear and the three beside it: SHORTS read, one bit
\* set or cleared, written back.
short_compare_clear(t, n) == [t EXCEPT !.shorts = @ \cup {n}]
unshort_compare_clear(t, n) == [t EXCEPT !.shorts = @ \ {n}]
short_compare_stop_bit_n(t, n) == [t EXCEPT !.shorts = @ \cup {n}]
short_compare_stop(t, n) == [t EXCEPT !.shorts = @ \cup {StopShortBase + n}]
unshort_compare_stop(t, n) == [t EXCEPT !.shorts = @ \ {StopShortBase + n}]

set_bitmode_no_stop(t, bitmode) ==
    [t EXCEPT !.bitmode = BitmodeVariant(bitmode),
              !.cfgWrite = [reg |-> "bitmode", calledRunning |-> t.running,
                            running |-> t.running, stopHeld |-> t.stopHeld]]

\* Timer::set_bitmode: stop(), then BITMODE written.
set_bitmode(t, bitmode) ==
    LET t1 == stop(t)
    IN  [t1 EXCEPT !.bitmode = BitmodeVariant(bitmode),
                   !.cfgWrite = [reg |-> "bitmode", calledRunning |-> t.running,
                                 running |-> t1.running, stopHeld |-> t1.stopHeld]]

\* Timer::with_bitmode: the handle it returns.
with_bitmode(h, bitmode) == [h EXCEPT !.bitmode = bitmode]

\* Timer<TimerType>::set_frequency: stop(), then PRESCALER written.
set_frequency(t, frequency) ==
    LET t1 == stop(t)
    IN  [t1 EXCEPT !.prescaler = frequency,
                   !.cfgWrite = [reg |-> "prescaler", calledRunning |-> t.running,
                                 running |-> t1.running, stopHeld |-> t1.stopHeld]]

\* Timer<NotConfigured>::into_counter / into_timer: MODE written, and the
\* handle returned.
into_counter_regs(t) == [t EXCEPT !.mode = "low_power_counter"]
into_counter(h) == [mode |-> "CounterType", bitmode |-> h.bitmode]
into_timer_regs(t) == [t EXCEPT !.mode = "timer"]
into_timer(h) == [mode |-> "TimerType", bitmode |-> h.bitmode]

\* get_timer, lines 47-54: the loop over the channels, from n on.
RECURSIVE init_cc(_, _)
init_cc(t, n) ==
    IF n >= NumCc THEN t
    ELSE LET c  == cc(n)
             t1 == unshort_compare_clear(t, c.n)
             t2 == unshort_compare_stop(t1, c.n)
             t3 == write(t2, c.n, 0)
         IN  init_cc(t3, n + 1)

get_timer_regs_skips_last(t) ==
    LET t3 == init_cc(clear(stop(t)), 0)
    IN  [t3 EXCEPT !.cc[NumCc - 1] = t.cc[NumCc - 1]]

\* get_timer: stop(), clear(), the loop; and the handle it returns.
get_timer_regs(t) == init_cc(clear(stop(t)), 0)
get_timer == [mode |-> "NotConfigured", bitmode |-> "B24"]

(***************************************************************************)
(* The flash controller: an operation in flight ends with BSY dropping,    *)
(* STRT reset, and any of the sticky flags raised.                         *)
(***************************************************************************)
HwComplete ==
    /\ sr.bsy
    /\ \E raised \in [pgerr : BOOLEAN, wrprt : BOOLEAN, eop : BOOLEAN] :
          /\ hwPending => raised.pgerr
          /\ sr' = [bsy   |-> FALSE,
                    pgerr |-> sr.pgerr \/ raised.pgerr,
                    wrprt |-> sr.wrprt \/ raised.wrprt,
                    eop   |-> sr.eop \/ raised.eop]
          /\ hwRaised' = raised
          /\ mem' = IF cr.per /\ cr.strt /\ hwPage # NoPage /\ ~raised.wrprt
                    THEN ErasePage(mem, hwPage)
                    ELSE mem
    /\ hwPending' = FALSE
    /\ cr' = [cr EXCEPT !.strt = FALSE]
    /\ UNCHANGED <<ar, keyr, fpc, returned, fret, srReady, polls, wreq, hwPage>>
    /\ UNCHANGED timerVars

\* TIMER0 after reset.
TimReset ==
    [running |-> FALSE, off |-> FALSE, counter |-> 0, bitmode |-> "_16bit",
     prescaler |-> 0, mode |-> "timer", shorts |-> {},
     cc |-> [n \in Channels |-> 0], stopHeld |-> FALSE, cfgWrite |-> NoCfgWrite,
     sampled |-> {}]

\* The states an earlier user of TIMER0 may have left it in.
PriorTim ==
    {[TimReset EXCEPT !.running = r, !.counter = c, !.cc = f, !.shorts = s] :
        r \in BOOLEAN,
        c \in {0, MaxCount},
        f \in {[n \in Channels |-> 0], [n \in Channels |-> MaxCount],
               [n \in Channels |-> IF n = NumCc - 1 THEN 1 ELSE 0]},
        s \in {{}, {n : n \in Channels} \cup {StopShortBase + n : n \in Channels},
               {NumCc - 1, StopShortBase + NumCc - 1}}}

\* No handle has been taken yet.
TimerUnbound ==
    /\ handle = [mode |-> "None", bitmode |-> "B24"]
    /\ binds = 0
    /\ ppiTask = NoTask
    /\ top = "none"
    /\ tval = 0
    /\ rmw = [p \in Contexts |-> NoModify]
    /\ ccLive = {}

(***************************************************************************)
(* Flash actions: one per function; a blocking function is entered by one  *)
(* action, spins by a second and returns by a third.                       *)
(***************************************************************************)
FlashReset ==
    /\ cr = [CrDefault EXCEPT !.lock = TRUE]
    /\ sr = SrDefault
    /\ ar = 0
    /\ keyr = <<>>
    /\ fpc = "idle"
    /\ returned = "none"
    /\ fret = "Ok"
    /\ srReady = SrDefault
    /\ polls = 0
    /\ mem = [a \in HalfWordAddrs |-> Erased]
    /\ wreq = NoWrite
    /\ hwPending = FALSE
    /\ hwRaised = NoFlags
    /\ hwPage = NoPage

\* The flash engine from reset, the timer left alone.
FlashInit == FlashReset /\ TimerUnbound /\ tim = TimReset /\ inten = {}

Lock ==
    /\ fpc = "idle"
    /\ cr' = lock(cr)
    /\ keyr' = <<>>
    /\ returned' = "lock"
    /\ UNCHANGED <<sr, ar, fpc, fret, srReady, polls>>
    /\ UNCHANGED <<timerVars, flashExt>>

Unlock ==
    /\ fpc = "idle"
    /\ keyr' = <<KEY1, KEY2>>
    /\ cr' = unlock(cr, keyr')
    /\ returned' = "unlock"
    /\ UNCHANGED <<sr, ar, fpc, fret, srReady, polls>>
    /\ UNCHANGED <<timerVars, flashExt>>

ClearAllErr ==
    /\ fpc = "idle"
    /\ sr' = clear_all_err(sr)
    /\ returned' = "clear_all_err"
    /\ UNCHANGED <<cr, ar, keyr, fpc, fret, srReady, polls>>
    /\ UNCHANGED <<timerVars, flashExt>>

\* The caller of the write path: begin_write, then blocking_write, then
\* end_write whatever blocking_write returned.
BeginWrite ==
    /\ fpc = "idle"
    /\ cr' = begin_write(cr)
    /\ fpc' = "begun"
    /\ returned' = "begin_write"
    /\ UNCHANGED <<sr, ar, keyr, fret, srReady, polls>>
    /\ UNCHANGED <<timerVars, flashExt>>

\* blocking_write, lines 34-41: the half-words are stored, the controller
\* starts programming; line 43 enters the poll.
BlockingWriteAt(address, buf) ==
    /\ fpc = "begun"
    /\ LET m == blocking_write_chunks([mem |-> mem, pgerr |-> FALSE], cr, address, buf)
       IN  /\ mem' = m.mem
           /\ hwPending' = m.pgerr
    /\ wreq' = [buf |-> buf, address |-> address,
                fresh |-> \A a \in HalfWordAddrs :
                             (address <= a /\ a < address + Len(buf)) => mem[a] = Erased]
    /\ hwRaised' = NoFlags
    /\ sr' = [sr EXCEPT !.bsy = TRUE]
    /\ fpc' = "write_wait"
    /\ returned' = "none"
    /\ polls' = 0
    /\ UNCHANGED <<cr, ar, keyr, fret, srReady, hwPage>>
    /\ UNCHANGED timerVars

\* A zero-filled block written at the start of sector 0.
BlockingWrite == BlockingWriteAt(SectorStart(0), [i \in 1..WriteSize |-> 0])

\* Any of the buffers written at the start of any sector.
BlockingWriteAny ==
    \E s \in 0..MaxSector, buf \in Buffers : BlockingWriteAt(SectorStart(s), buf)

\* A turn of the loop of blocking_wait_ready that reads BSY set.
WaitSpin ==
    /\ fpc \in {"write_wait", "erase_wait"}
    /\ blocking_wait_ready(sr) = "Spin"
    /\ polls < MaxPolls
    /\ polls' = polls + 1
    /\ UNCHANGED <<cr, sr, ar, keyr, fpc, returned, fret, srReady>>
    /\ UNCHANGED <<timerVars, flashExt>>

\* The turn that reads BSY clear: blocking_write returns its result.
WriteReturn ==
    /\ fpc = "write_wait"
    /\ blocking_wait_ready(sr) # "Spin"
    /\ srReady' = sr
    /\ fret' = blocking_wait_ready(sr)
    /\ fpc' = "write_ret"
    /\ returned' = "blocking_write"
    /\ UNCHANGED <<cr, sr, ar, keyr, polls>>
    /\ UNCHANGED <<timerVars, flashExt>>

EndWrite ==
    /\ fpc = "write_ret"
    /\ cr' = end_write(cr)
    /\ fpc' = "idle"
    /\ returned' = "end_write"
    /\ UNCHANGED <<sr, ar, keyr, fret, srReady, polls>>
    /\ UNCHANGED <<timerVars, flashExt>>

\* blocking_erase_sector up to the poll.
EraseStart ==
    /\ fpc = "idle"
    /\ \E sector \in 0..MaxSector : ar' = sector
    /\ cr' = erase_begin_cr(cr)
    /\ sr' = [sr EXCEPT !.bsy = TRUE]
    /\ fpc' = "erase_wait"
    /\ hwPage' = erase_begin_page(cr, ar, ar')
    /\ hwRaised' = NoFlags
    /\ returned' = "none"
    /\ polls' = 0
    /\ UNCHANGED <<keyr, fret, srReady, mem, wreq, hwPending>>
    /\ UNCHANGED timerVars

\* blocking_erase_sector from the turn that reads BSY clear to its return.
EraseReturn ==
    /\ fpc = "erase_wait"
    /\ blocking_wait_ready(sr) # "Spin"
    /\ srReady' = sr
    /\ fret' = erase_ret(blocking_wait_ready(sr), sr)
    /\ sr' = erase_end_sr(sr)
    /\ cr' = erase_end_cr(cr)
    /\ fpc' = "idle"
    /\ returned' = "blocking_erase_sector"
    /\ UNCHANGED <<ar, keyr, polls>>
    /\ UNCHANGED <<timerVars, flashExt>>

FlashNext ==
    \/ Lock
    \/ Unlock
    \/ ClearAllErr
    \/ BeginWrite
    \/ BlockingWrite
    \/ WaitSpin
    \/ WriteReturn
    \/ EndWrite
    \/ EraseStart
    \/ EraseReturn
    \/ HwComplete

FlashSpec == FlashInit /\ [][FlashNext]_vars

\* The flash engine with its scheduling: the loop of blocking_wait_ready
\* keeps reading the status register, so a return that stays possible is
\* taken; the controller finishes the operation it is busy with.
FlashLiveSpec ==
    /\ FlashInit
    /\ [][FlashNext]_vars
    /\ WF_vars(WriteReturn)
    /\ WF_vars(EraseReturn)
    /\ WF_vars(HwComplete)

\* Blocks written and sectors erased, with the flash array.
WriteNext ==
    \/ BeginWrite
    \/ BlockingWriteAny
    \/ WriteReturn
    \/ EndWrite
    \/ EraseStart
    \/ EraseReturn
    \/ HwComplete

WriteSpec == FlashInit /\ [][WriteNext]_vars

\* The flash functions applied to every value FLASH_CR can hold when the
\* engine is first called with no operation in flight (STRT reads 0).
CrPriorInit ==
    /\ cr \in {c \in CrBits : ~c.strt}
    /\ sr = SrDefault
    /\ ar = 0
    /\ keyr = <<>>
    /\ fpc = "idle"
    /\ returned = "none"
    /\ fret = "Ok"
    /\ srReady = SrDefault
    /\ polls = 0
    /\ mem = [a \in HalfWordAddrs |-> Erased]
    /\ wreq = NoWrite
    /\ hwPending = FALSE
    /\ hwRaised = NoFlags
    /\ hwPage = NoPage
    /\ TimerUnbound
    /\ tim = TimReset
    /\ inten = {}

CrPriorSpec == CrPriorInit /\ [][FlashNext]_vars

FlashTypeOK ==
    /\ cr \in CrBits
    /\ sr \in SrBits
    /\ ar \in 0..MaxSector
    /\ fpc \in {"idle", "begun", "write_wait", "write_ret", "erase_wait"}
    /\ fret \in {"Ok", "Protected", "Seq", "Prog"}
    /\ polls \in 0..MaxPolls

(***************************************************************************)
(* Timer actions: one per driver function. The mode of the handle is its   *)
(* type: a function of impl Timer<TimerType> is enabled on a TimerType     *)
(* handle only, and so on.                                                 *)
(***************************************************************************)
\* The panic of cc(n) ends the program.
Halted == top = "cc_panic"

HasHandle == handle.mode # "None" /\ ~Halted

GetTimer ==
    /\ ~Halted
    /\ binds < MaxBinds
    /\ tim' = get_timer_regs(tim)
    /\ handle' = get_timer
    /\ binds' = binds + 1
    /\ top' = "get_timer"
    /\ UNCHANGED <<ppiTask, tval>>
    /\ UNCHANGED <<flashVars, chanVars>>

WithBitmode ==
    /\ HasHandle
    /\ \E b \in Bitmode :
          /\ tim' = set_bitmode(tim, b)
          /\ handle' = with_bitmode(handle, b)
    /\ top' = "with_bitmode"
    /\ UNCHANGED <<binds, ppiTask, tval>>
    /\ UNCHANGED <<flashVars, chanVars>>

Start ==
    /\ HasHandle
    /\ tim' = start(tim)
    /\ top' = "start"
    /\ UNCHANGED <<handle, binds, ppiTask, tval>>
    /\ UNCHANGED <<flashVars, chanVars>>

Stop ==
    /\ HasHandle
    /\ tim' = stop(tim)
    /\ top' = "stop"
    /\ UNCHANGED <<handle, binds, ppiTask, tval>>
    /\ UNCHANGED <<flashVars, chanVars>>

Clear ==
    /\ HasHandle
    /\ tim' = clear(tim)
    /\ top' = "clear"
    /\ UNCHANGED <<handle, binds, ppiTask, tval>>
    /\ UNCHANGED <<flashVars, chanVars>>

SetFrequency ==
    /\ handle.mode = "TimerType"
    /\ \E f \in 0..MaxFreq : tim' = set_frequency(tim, f)
    /\ top' = "set_frequency"
    /\ UNCHANGED <<handle, binds, ppiTask, tval>>
    /\ UNCHANGED <<flashVars, chanVars>>

IntoCounter ==
    /\ handle.mode = "NotConfigured"
    /\ tim' = into_counter_regs(tim)
    /\ handle' = into_counter(handle)
    /\ top' = "into_counter"
    /\ UNCHANGED <<binds, ppiTask, tval>>
    /\ UNCHANGED <<flashVars, chanVars>>

IntoTimerAnyMode ==
    /\ HasHandle
    /\ tim' = into_timer_regs(tim)
    /\ handle' = into_timer(handle)
    /\ top' = "into_timer"
    /\ UNCHANGED <<binds, ppiTask, tval>>
    /\ UNCHANGED <<flashVars, chanVars>>

IntoTimer ==
    /\ handle.mode = "NotConfigured"
    /\ tim' = into_timer_regs(tim)
    /\ handle' = into_timer(handle)
    /\ top' = "into_timer"
    /\ UNCHANGED <<binds, ppiTask, tval>>
    /\ UNCHANGED <<flashVars, chanVars>>

\* The Task a task_* function returns is handed to the interconnect.
TaskStart ==
    /\ HasHandle
    /\ ppiTask' = [api |-> "task_start", ch |-> 0, reg |-> task_start]
    /\ top' = "task_start"
    /\ UNCHANGED <<tim, handle, binds, tval>>
    /\ UNCHANGED <<flashVars, chanVars>>

TaskStop ==
    /\ HasHandle
    /\ ppiTask' = [api |-> "task_stop", ch |-> 0, reg |-> task_stop]
    /\ top' = "task_stop"
    /\ UNCHANGED <<tim, handle, binds, tval>>
    /\ UNCHANGED <<flashVars, chanVars>>

TaskClear ==
    /\ HasHandle
    /\ ppiTask' = [api |-> "task_clear", ch |-> 0, reg |-> task_clear]
    /\ top' = "task_clear"
    /\ UNCHANGED <<tim, handle, binds, tval>>
    /\ UNCHANGED <<flashVars, chanVars>>

TaskCount ==
    /\ handle.mode = "CounterType"
    /\ ppiTask' = [api |-> "task_count", ch |-> 0, reg |-> task_count]
    /\ top' = "task_count"
    /\ UNCHANGED <<tim, handle, binds, tval>>
    /\ UNCHANGED <<flashVars, chanVars>>

\* The interconnect triggers the Task it was handed.
PpiFire ==
    /\ ppiTask.api # "none"
    /\ tim' = HwTask(tim, ppiTask.reg)
    /\ top' = "ppi"
    /\ UNCHANGED <<handle, binds, ppiTask, tval>>
    /\ UNCHANGED <<flashVars, chanVars>>

\* The timer counts while it runs in timer mode.
Tick ==
    /\ tim.running
    /\ tim.mode = "timer"
    /\ tim.counter < MaxCount
    /\ tim' = Advance(tim)
    /\ UNCHANGED <<handle, binds, ppiTask, top, tval>>
    /\ UNCHANGED <<flashVars, chanVars>>

\* The channel functions, on the Cc handle cc(n) returns.
\* timer.cc(n).write(value)
CcWriteCh(n, value) ==
    /\ HasHandle
    /\ ~cc(n).panic
    /\ tim' = write(tim, cc(n).n, value)
    /\ top' = "write"
    /\ UNCHANGED <<handle, binds, ppiTask, tval>>
    /\ UNCHANGED <<flashVars, chanVars>>

\* timer.cc(n).read()
CcReadCh(n) ==
    /\ HasHandle
    /\ ~cc(n).panic
    /\ tval' = read(tim, cc(n).n)
    /\ top' = "read"
    /\ UNCHANGED <<tim, handle, binds, ppiTask>>
    /\ UNCHANGED <<flashVars, chanVars>>

\* timer.cc(n).capture(): the trigger, then read() of what it stored.
CcCaptureCh(n) ==
    /\ HasHandle
    /\ ~cc(n).panic
    /\ tim' = capture(tim, cc(n).n)
    /\ tval' = read(tim', cc(n).n)
    /\ top' = "capture"
    /\ UNCHANGED <<handle, binds, ppiTask>>
    /\ UNCHANGED <<flashVars, chanVars>>

CcWrite == \E n \in Channels, value \in 0..MaxCount : CcWriteCh(n, value)

CcRead == \E n \in Channels : CcReadCh(n)

CcCapture == \E n \in Channels : CcCaptureCh(n)

\* The four shortcut functions of timer.cc(n).
ShortCompareClearCh(n) ==
    /\ HasHandle
    /\ ~cc(n).panic
    /\ tim' = short_compare_clear(tim, cc(n).n)
    /\ top' = "short_compare_clear"
    /\ UNCHANGED <<handle, binds, ppiTask, tval>>
    /\ UNCHANGED <<flashVars, chanVars>>

UnshortCompareClearCh(n) ==
    /\ HasHandle
    /\ ~cc(n).panic
    /\ tim' = unshort_compare_clear(tim, cc(n).n)
    /\ top' = "unshort_compare_clear"
    /\ UNCHANGED <<handle, binds, ppiTask, tval>>
    /\ UNCHANGED <<flashVars, chanVars>>

ShortCompareStopCh(n) ==
    /\ HasHandle
    /\ ~cc(n).panic
    /\ tim' = short_compare_stop(tim, cc(n).n)
    /\ top' = "short_compare_stop"
    /\ UNCHANGED <<handle, binds, ppiTask, tval>>
    /\ UNCHANGED <<flashVars, chanVars>>

UnshortCompareStopCh(n) ==
    /\ HasHandle
    /\ ~cc(n).panic
    /\ tim' = unshort_compare_stop(tim, cc(n).n)
    /\ top' = "unshort_compare_stop"
    /\ UNCHANGED <<handle, binds, ppiTask, tval>>
    /\ UNCHANGED <<flashVars, chanVars>>

ShortCompareClear == \E n \in Channels : ShortCompareClearCh(n)

UnshortCompareClear == \E n \in Channels : UnshortCompareClearCh(n)

ShortCompareStop == \E n \in Channels : ShortCompareStopCh(n)

UnshortCompareStop == \E n \in Channels : UnshortCompareStopCh(n)

TaskCapture ==
    /\ HasHandle
    /\ \E n \in Channels :
          /\ ~cc(n).panic
          /\ ppiTask' = [api |-> "task_capture", ch |-> n, reg |-> task_capture(cc(n).n)]
    /\ top' = "task_capture"
    /\ UNCHANGED <<tim, handle, binds, tval>>
    /\ UNCHANGED <<flashVars, chanVars>>

\* The timer as a whole: binding, mode, configuration, the exported tasks.
\* The four shortcut functions by name.
ShortOps ==
    {"short_compare_clear", "unshort_compare_clear",
     "short_compare_stop", "unshort_compare_stop"}

ApplyShort(op, t, n) ==
    CASE op = "short_compare_clear"   -> short_compare_clear(t, n)
      [] op = "unshort_compare_clear" -> unshort_compare_clear(t, n)
      [] op = "short_compare_stop"    -> short_compare_stop(t, n)
      [] op = "unshort_compare_stop"  -> unshort_compare_stop(t, n)

\* shorts.modify(|r, w| ...) is a load of SHORTS, the closure, and a store:
\* another context can run between the load and the store.
\* The load, r.bits(), of a shortcut function of cc(n) in context p.
ModifyLoad(p) ==
    /\ HasHandle
    /\ rmw[p].pc = "idle"
    /\ \E op \in ShortOps, n \in Channels :
          /\ ~cc(n).panic
          /\ rmw' = [rmw EXCEPT ![p] =
                        [pc |-> "loaded", op |-> op, n |-> cc(n).n, bits |-> tim.shorts]]
    /\ UNCHANGED <<tim, handle, binds, ppiTask, top, tval, inten, ccLive>>
    /\ UNCHANGED flashVars

\* The store, w.bits(...), of the value computed from what was loaded.
ModifyStore(p) ==
    /\ rmw[p].pc = "loaded"
    /\ tim' = [tim EXCEPT !.shorts =
                  ApplyShort(rmw[p].op, [tim EXCEPT !.shorts = rmw[p].bits], rmw[p].n).shorts]
    /\ rmw' = [rmw EXCEPT ![p].pc = "done"]
    /\ top' = rmw[p].op
    /\ UNCHANGED <<handle, binds, ppiTask, tval, inten, ccLive>>
    /\ UNCHANGED flashVars

RaceLoad == \E p \in Contexts : ModifyLoad(p)

RaceStore == \E p \in Contexts : ModifyStore(p)

\* timer.cc(n) for an index the caller chose.
CcGetIdx(n) ==
    /\ HasHandle
    /\ IF cc(n).panic
       THEN /\ top' = "cc_panic"
            /\ UNCHANGED ccLive
       ELSE /\ top' = "cc"
            /\ ccLive' = ccLive \cup {cc(n).n}
    /\ UNCHANGED <<tim, handle, binds, ppiTask, tval, rmw, inten>>
    /\ UNCHANGED flashVars

CcGet == \E n \in 0..MaxIndex : CcGetIdx(n)

\* A Cc handle goes out of scope. Cc has no Drop implementation: no register
\* is written.
CcDropCh(n) ==
    /\ ~Halted
    /\ n \in ccLive
    /\ ccLive' = ccLive \ {n}
    /\ top' = "drop"
    /\ UNCHANGED <<tim, handle, binds, ppiTask, tval, rmw, inten>>
    /\ UNCHANGED flashVars

CcDrop == \E n \in Channels : CcDropCh(n)

TimerInit == FlashReset /\ TimerUnbound /\ tim \in PriorTim /\ inten = {}

TimerNext ==
    \/ GetTimer
    \/ WithBitmode
    \/ Start
    \/ Stop
    \/ Clear
    \/ SetFrequency
    \/ IntoCounter
    \/ IntoTimer
    \/ TaskStart
    \/ TaskStop
    \/ TaskClear
    \/ TaskCount
    \/ PpiFire
    \/ Tick

TimerSpec == TimerInit /\ [][TimerNext]_vars

\* The channels of a bound timer: write, read, capture, the capture task.
CaptureNext ==
    \/ GetTimer
    \/ Start
    \/ Stop
    \/ Clear
    \/ Tick
    \/ CcWrite
    \/ CcRead
    \/ CcCapture
    \/ TaskCapture
    \/ PpiFire

CaptureSpec == TimerInit /\ [][CaptureNext]_vars

\* The shortcuts of a bound timer. SHORTS may hold bits of channels this
\* timer does not have (5 and 13) from before.
ShortsInit ==
    /\ FlashReset
    /\ TimerUnbound
    /\ tim \in PriorTim \cup {[TimReset EXCEPT !.shorts = {1, 5, 13}]}
    /\ inten = {}

ShortsNext ==
    \/ GetTimer
    \/ ShortCompareClear
    \/ UnshortCompareClear
    \/ ShortCompareStop
    \/ UnshortCompareStop

ShortsSpec == ShortsInit /\ [][ShortsNext]_vars

\* A running counter sampled through the channels 0..MaxSampleCh.
SampleChannels == 0..MaxSampleCh

SampleWrite == \E n \in SampleChannels, value \in 0..MaxCount : CcWriteCh(n, value)

SampleRead == \E n \in SampleChannels : CcReadCh(n)

SampleCapture == \E n \in SampleChannels : CcCaptureCh(n)

SampleNext ==
    \/ GetTimer
    \/ Start
    \/ Stop
    \/ Clear
    \/ Tick
    \/ SampleWrite
    \/ SampleRead
    \/ SampleCapture

SampleSpec == TimerInit /\ [][SampleNext]_vars

\* Two contexts, each running one shortcut function of its own Cc handle on
\* the timer get_timer has just bound.
RaceInit ==
    /\ FlashReset
    /\ tim \in {get_timer_regs(t) : t \in PriorTim \cup {[TimReset EXCEPT !.shorts = {5, 13}]}}
    /\ handle = get_timer
    /\ binds = 1
    /\ ppiTask = NoTask
    /\ top = "get_timer"
    /\ tval = 0
    /\ rmw = [p \in Contexts |-> NoModify]
    /\ ccLive = {}
    /\ inten = {}

RaceNext ==
    \/ RaceLoad
    \/ RaceStore

RaceSpec == RaceInit /\ [][RaceNext]_vars

\* The interrupt enables other software left set before the driver binds.
PriorInten == {{}, {16}, {16, 17}, {17, 19}}

\* Cc handles taken and dropped.
HandleInit ==
    /\ FlashReset
    /\ TimerUnbound
    /\ tim \in PriorTim
    /\ inten \in PriorInten

HandleNext ==
    \/ GetTimer
    \/ CcGet
    \/ CcDrop

HandleSpec == HandleInit /\ [][HandleNext]_vars

(***************************************************************************)
(* Properties of the timer driver.                                         *)
(***************************************************************************)
\* C1: every write of BITMODE (with_bitmode/set_bitmode) or of PRESCALER
\* (set_frequency) finds the timer stopped: at the write the timer does not
\* run, and a STOP was triggered with no START between it and the write.
C1_ConfigWrittenWhileStopped ==
    tim.cfgWrite.reg # "none" =>
        /\ ~tim.cfgWrite.running
        /\ tim.cfgWrite.stopHeld

\* A frequency change asked of a running timer.
C1_Witness ==
    /\ tim.cfgWrite.reg = "prescaler"
    /\ tim.cfgWrite.calledRunning
    /\ top = "set_frequency"

\* C7: right after get_timer returns, whatever state the timer was in, the
\* four CC registers hold 0, the compare-to-clear shortcut (bit n) and the
\* compare-to-stop shortcut (bit 8+n) of every channel are disabled, and the
\* timer is stopped with its counter at 0.
C7_BindResetsChannels ==
    top = "get_timer" =>
        /\ \A n \in Channels :
              /\ tim.cc[n] = 0
              /\ n \notin tim.shorts
              /\ (StopShortBase + n) \notin tim.shorts
        /\ ~tim.running
        /\ tim.counter = 0

\* The timer bound again after the first handle configured it.
C7_Witness ==
    /\ top = "get_timer"
    /\ binds > 1
    /\ tim.cfgWrite.reg # "none"

\* C8: the mode of a handle moves only from NotConfigured to CounterType or
\* to TimerType and then stays; the move keeps the bit-width; PRESCALER is
\* written only through a TimerType handle and the count task is exported
\* only from a CounterType handle.
C8_ModeOneWay ==
    [][ /\ (binds' = binds /\ handle.mode \in {"CounterType", "TimerType"})
            => handle'.mode = handle.mode
        /\ (binds' = binds /\ handle.mode = "NotConfigured"
                           /\ handle'.mode # handle.mode)
            => /\ handle'.mode \in {"CounterType", "TimerType"}
               /\ handle'.bitmode = handle.bitmode
        /\ (\/ tim'.prescaler # tim.prescaler
            \/ (tim'.cfgWrite.reg = "prescaler" /\ tim.cfgWrite.reg # "prescaler"))
            => handle.mode = "TimerType"
        /\ (ppiTask' # ppiTask /\ ppiTask'.reg.name = "tasks_count")
            => handle.mode = "CounterType"
      ]_vars

\* A counter whose count task was exported and whose bit-width was changed
\* after the move.
C8_Witness ==
    /\ handle.mode = "CounterType"
    /\ ppiTask.api = "task_count"
    /\ top = "with_bitmode"
    /\ handle.bitmode = "B32"

\* C9: the Task task_start, task_stop or task_clear returns points to the
\* START, STOP or CLEAR register: triggering it does to the timer what
\* start(), stop() or clear() does; and exporting it changes no register.
C9_ExportedTasksActAsCalls ==
    [][ /\ (PpiFire /\ ppiTask.api = "task_start")
            => (ppiTask.reg = Reg("tasks_start", 0) /\ tim' = start(tim))
        /\ (PpiFire /\ ppiTask.api = "task_stop")
            => (ppiTask.reg = Reg("tasks_stop", 0) /\ tim' = stop(tim))
        /\ (PpiFire /\ ppiTask.api = "task_clear")
            => (ppiTask.reg = Reg("tasks_clear", 0) /\ tim' = clear(tim))
        /\ (TaskStart \/ TaskStop \/ TaskClear) => tim' = tim
      ]_vars

\* C10: the Task task_capture of channel n returns points to the capture
\* trigger of channel n: triggering it stores the counter in CC[n] and
\* changes no other CC register, as capture() on channel n does.
C10_TaskCaptureOwnChannel ==
    [][ (PpiFire /\ ppiTask.api = "task_capture")
            => tim' = capture(tim, ppiTask.ch)
      ]_vars

\* The bit positions of a 32-bit register.
Bits32 == 0..31

\* C13: for every channel n and every prior SHORTS, short_compare_clear sets
\* and unshort_compare_clear clears exactly bit n, short_compare_stop sets
\* and unshort_compare_stop clears exactly bit 8+n; every other bit of SHORTS
\* and every CC register stay as they were.
C13_ShortcutTouchesOwnBit ==
    [][ \A n \in Channels :
          /\ ShortCompareClearCh(n) =>
                /\ n \in tim'.shorts
                /\ \A b \in Bits32 \ {n} : (b \in tim'.shorts) = (b \in tim.shorts)
                /\ tim'.cc = tim.cc
          /\ UnshortCompareClearCh(n) =>
                /\ n \notin tim'.shorts
                /\ \A b \in Bits32 \ {n} : (b \in tim'.shorts) = (b \in tim.shorts)
                /\ tim'.cc = tim.cc
          /\ ShortCompareStopCh(n) =>
                /\ (8 + n) \in tim'.shorts
                /\ \A b \in Bits32 \ {8 + n} : (b \in tim'.shorts) = (b \in tim.shorts)
                /\ tim'.cc = tim.cc
          /\ UnshortCompareStopCh(n) =>
                /\ (8 + n) \notin tim'.shorts
                /\ \A b \in Bits32 \ {8 + n} : (b \in tim'.shorts) = (b \in tim.shorts)
                /\ tim'.cc = tim.cc
      ]_vars

\* The stop shortcut of channel 3 just enabled beside other channels' bits
\* and bits left from before.
C13_Witness ==
    /\ top = "short_compare_stop"
    /\ tim.shorts = {0, 5, 9, 11, 13}

\* C15, as claimed: on a running counter capture() returns a value >= the
\* value read from the channel just before the trigger, and returns what
\* the capture just stored.
C15_CaptureNotBelowRead ==
    [][ \A n \in Channels :
          (CcCaptureCh(n) /\ tim.running) =>
              /\ tval' >= read(tim, n)
              /\ tval' = tim.counter
              /\ tim'.cc[n] = tval'
      ]_vars

\* C15, amended: capture() returns the counter's value at the trigger, which
\* is also what CC[n] then holds; on a running counter it is >= the value
\* read from the channel just before the trigger when that value is itself
\* a capture taken since the counter last went back to 0.
C15_CaptureReturnsCounter ==
    [][ \A n \in Channels :
          CcCaptureCh(n) =>
              /\ tval' = tim.counter
              /\ tim'.cc[n] = tval'
              /\ (tim.running /\ n \in tim.sampled) => tval' >= read(tim, n)
      ]_vars

\* A second capture on a channel of a running counter that has counted on.
C15_Witness ==
    /\ top = "capture"
    /\ tim.running
    /\ 0 \in tim.sampled
    /\ 1 \in tim.sampled
    /\ tim.cc[0] < tim.cc[1]
    /\ tval = tim.cc[1]

\* The SHORTS bit a shortcut function of channel n owns, and the value it
\* gives the bit.
ShortBit(op, n) ==
    IF op \in {"short_compare_clear", "unshort_compare_clear"} THEN n ELSE 8 + n

ShortSets(op) == op \in {"short_compare_clear", "short_compare_stop"}

\* C11: when the two contexts have each finished a shortcut function on
\* different bits of SHORTS, each context's bit has the value that context
\* gave it, whatever the interleaving of the two modifies.
C11_NoLostUpdate ==
    ( /\ \A p \in Contexts : rmw[p].pc = "done"
      /\ ShortBit(rmw["thread"].op, rmw["thread"].n)
            # ShortBit(rmw["handler"].op, rmw["handler"].n) )
    => \A p \in Contexts :
          (ShortBit(rmw[p].op, rmw[p].n) \in tim.shorts) = ShortSets(rmw[p].op)

\* C12: dropping the Cc handle of channel n leaves bit 16+n of the interrupt
\* enables clear and every other bit as it was.
C12_DropClearsInten ==
    [][ \A n \in Channels :
          CcDropCh(n) =>
              /\ (16 + n) \notin inten'
              /\ \A b \in Bits32 \ {16 + n} : (b \in inten') = (b \in inten)
      ]_vars

\* C16: cc(index) gives a handle with that index for index 0..3; for an
\* index >= 4 it panics, gives no handle and changes no register; every
\* handle that exists has an index in 0..3.
C16_CcIndexChecked ==
    /\ [](\A n \in ccLive : 0 <= n /\ n < 4)
    /\ [][ \A n \in 0..MaxIndex :
             CcGetIdx(n) =>
                 IF n < 4
                 THEN /\ top' = "cc"
                      /\ ccLive' = ccLive \cup {n}
                      /\ tim' = tim
                 ELSE /\ top' = "cc_panic"
                      /\ ccLive' = ccLive
                      /\ tim' = tim
                      /\ inten' = inten
         ]_vars

\* cc(4) panicked while the handles of channels 0 and 3 exist.
C16_Witness ==
    /\ top = "cc_panic"
    /\ ccLive = {0, 3}

(***************************************************************************)
(* Properties of the flash engine.                                         *)
(***************************************************************************)
\* The result the poll gives for a status word with BSY clear: WRPRT first,
\* then PGERR.
ReadyResult(s) ==
    IF s.wrprt THEN "Protected" ELSE IF s.pgerr THEN "Seq" ELSE "Ok"

\* C2: when blocking_erase_sector has returned, with Ok or with an error,
\* PGERR, WRPRT and EOP are clear and PER is deasserted, whatever status the
\* controller presented when BSY dropped.
C2_EraseLeavesControllerClean ==
    returned = "blocking_erase_sector" =>
        /\ ~sr.pgerr
        /\ ~sr.wrprt
        /\ ~sr.eop
        /\ ~cr.per

\* An erase that failed with Prog while both error flags were up.
C2_Witness ==
    /\ returned = "blocking_erase_sector"
    /\ fret = "Prog"
    /\ srReady.pgerr
    /\ srReady.wrprt

\* C3: a write begun with begin_write leaves PG deasserted once its outcome
\* is reported: the caller is idle again only after end_write, whether
\* blocking_write returned Ok or an error.
C3_WriteLeavesPgClear ==
    /\ fpc = "idle" => ~cr.pg
    /\ returned = "end_write" => fpc = "idle"

\* A write to a protected region, reported.
C3_Witness ==
    /\ returned = "end_write"
    /\ fret = "Protected"
    /\ fpc = "idle"

\* C4: when blocking_write returns, whatever it returns, PGERR, WRPRT and
\* EOP are all clear.
C4_WriteLeavesFlagsClear ==
    returned = "blocking_write" =>
        /\ ~sr.pgerr
        /\ ~sr.wrprt
        /\ ~sr.eop

\* C5: blocking_write returns only on a status word with BSY clear, and then
\* Protected if WRPRT is set, else SequenceError if PGERR is set, else Ok;
\* while it waits nothing has been returned.
C5_WriteResultByPriority ==
    /\ fpc = "write_wait" => returned = "none"
    /\ returned = "blocking_write" =>
          /\ ~sr.bsy
          /\ sr.wrprt => fret = "Protected"
          /\ (~sr.wrprt /\ sr.pgerr) => fret = "Seq"
          /\ (~sr.wrprt /\ ~sr.pgerr) => fret = "Ok"

\* Both error flags up after a wait that spun: Protected wins.
C5_Witness ==
    /\ returned = "blocking_write"
    /\ sr.wrprt
    /\ sr.pgerr
    /\ fret = "Protected"
    /\ polls > 0

\* C6, as claimed: blocking_erase_sector returns Prog exactly when EOP is not
\* set once BSY clears; when EOP is set it is cleared and the erase returns
\* Ok.
C6_EraseOkWheneverEop ==
    returned = "blocking_erase_sector" =>
        /\ (fret = "Prog") <=> ~srReady.eop
        /\ srReady.eop => (~sr.eop /\ fret = "Ok")

\* C6, amended: blocking_erase_sector returns Prog exactly when EOP is not
\* set once BSY clears; when EOP is set it is cleared and the erase returns
\* what the poll returned: Protected if WRPRT is set, else SequenceError if
\* PGERR is set, else Ok.
C6_EraseResult ==
    returned = "blocking_erase_sector" =>
        /\ (fret = "Prog") <=> ~srReady.eop
        /\ srReady.eop => (~sr.eop /\ fret = ReadyResult(srReady))

\* An erase that ended with EOP and WRPRT both set.
C6_Witness ==
    /\ returned = "blocking_erase_sector"
    /\ srReady.eop
    /\ srReady.wrprt
    /\ fret = "Protected"

\* C20: begin_write and end_write change only PG of FLASH_CR: PER, STRT and
\* LOCK are after the call what they were before it, for every prior value
\* of the register.
C20_WriteGateChangesOnlyPg ==
    [][ (BeginWrite \/ EndWrite) =>
            /\ cr'.per = cr.per
            /\ cr'.strt = cr.strt
            /\ cr'.lock = cr.lock
      ]_vars

\* A blocking flash function is in its poll.
Waiting == fpc \in {"write_wait", "erase_wait"}

\* C18: blocking_write and blocking_erase_sector return only on a status
\* read with BSY clear, so while BSY stays set the call does not return;
\* with a controller that ends its operation the call in its poll returns.
C18_ReturnsOnlyWhenReady ==
    /\ [][ (WriteReturn \/ EraseReturn) => (~sr.bsy /\ srReady' = sr) ]_vars
    /\ [][ (Waiting /\ ~Waiting') => ~sr.bsy ]_vars
    /\ (Waiting ~> ~Waiting)

\* blocking_erase_sector returned after MaxPolls reads that found BSY set.
C18_Witness ==
    /\ returned = "blocking_erase_sector"
    /\ polls = MaxPolls
    /\ ~srReady.bsy

\* C14: after a blocking_write that returned Ok on a block that read erased,
\* half-word i of the block holds bytes 2i and 2i+1 of the buffer, low byte
\* first, at address + 2*i, and a read of the block gives the buffer.
C14_WriteReadsBack ==
    (returned = "blocking_write" /\ fret = "Ok" /\ wreq.fresh) =>
        /\ \A i \in 0..(WriteHalfWords - 1) :
              mem[wreq.address + 2 * i] = wreq.buf[2 * i + 1] + 256 * wreq.buf[2 * i + 2]
        /\ FlashRead(mem, wreq.address, WriteSize) = wreq.buf

\* The buffer 1, 2, 3, ... written to sector 1 and read back.
C14_Witness ==
    /\ returned = "blocking_write"
    /\ fret = "Ok"
    /\ wreq.fresh
    /\ wreq.address = SectorStart(1)
    /\ wreq.buf = [i \in 1..WriteSize |-> i]
    /\ mem[wreq.address] = 513

\* C17: while blocking_erase_sector polls, PER is set and the controller was
\* started on the page whose address the function wrote to FLASH_AR (PER,
\* then the address, then STRT); PER is taken back only by the step that
\* has read BSY clear and made the EOP check.
C17_EraseStepsInOrder ==
    /\ [](fpc = "erase_wait" => (cr.per /\ hwPage = ar))
    /\ [][ (cr.per /\ ~cr'.per) =>
              /\ fpc = "erase_wait"
              /\ ~sr.bsy
              /\ fret' = erase_ret(blocking_wait_ready(sr), sr)
              /\ returned' = "blocking_erase_sector"
        ]_vars

\* The erase of sector 1 in its poll, FLASH_AR having held 0 before.
C17_Witness ==
    /\ fpc = "erase_wait"
    /\ ar = 1
    /\ hwPage = 1
    /\ polls = 1

\* C19: a write or erase for which the controller raised neither WRPRT nor
\* PGERR does not return Protected or SequenceError.
C19_ResultFromOwnFlags ==
    ( /\ returned \in {"blocking_write", "blocking_erase_sector"}
      /\ ~hwRaised.wrprt
      /\ ~hwRaised.pgerr )
    => fret \notin {"Protected", "Seq"}

====
